---- MODULE Spec2Model ----
(***************************************************************************)
(* Privatgespraech: the chat controller (App.jsx) and the inference        *)
(* executor (worker.js) as two message-passing state machines.             *)
(*                                                                         *)
(* The controller is single-threaded: every handler runs to completion,    *)
(* React batches its state updates into one render, and the effects whose  *)
(* dependencies changed run after that render.  The executor is a web      *)
(* worker: its message listener starts load() and generate() without       *)
(* awaiting them, so their bodies are tasks that interleave at every await.*)
(***************************************************************************)
EXTENDS Integers, Sequences, FiniteSets, TLC

\* ------------------------------------------------------------------ bounds

\* User actions (submit, edit, new chat, interrupt, model selection) in one run.
MaxActions == 3
\* Handler calls in one run when the handlers are called as an interface.
MaxCalls == 2
\* Failures (a rejected download, a failed warm-up or decode step, a missing
\* adapter) in one run.
MaxFaults == 1
\* Decode steps of one generation (stands for max_new_tokens: 1024).
MaxTokens == 2
\* Events the worker has posted and the controller has not handled yet.
MaxPending == 1
\* Command bodies (check, load, generate) the executor starts in one run.
MaxTasks == 4

\* ------------------------------------------------------- program constants

M1 == "M1"   \* 'onnx-community/Llama-3.2-1B-Instruct-q4f16', the default selection
M2 == "M2"   \* another catalog entry
M3 == "M3"   \* 'onnx-community/Llama-3.2-3B-Instruct-onnx-web-gqa': configured, not in the catalog
MX == "MX"   \* an identifier that getModelConfig does not know
NoId == ""   \* a missing (falsy) model_id
None == "null"   \* JavaScript null
Undefined == "undefined"

\* The catalog of selectable models (their url fields).
AVAILABLE_MODELS == {M1, M2}
\* The keys of getModelConfig's configs table.
Configs == {M1, M2, M3}

\* The texts a user submits and the texts an edit puts in their place, and
\* the text chunk of one streamed update.
SubmitTexts == {"a"}
EditTexts == {"b"}
Chunk == "x"
\* The text of an error (e.toString()).
ErrorText == "Error"

VARIABLES
  ctl,       \* the controller's React state (and the persisted selection)
  owner,     \* ghost: for each entry of ctl.messages, the generation whose
             \* start event appended it (0 for a user entry)
  called,    \* ghost: the handler that ran last, and whether it returned early
  edit,      \* ghost: the last user action if it was an edit (its position, its
             \* text, the entries before it, the generation it started)
  acted,     \* number of user actions so far
  cmdQ,      \* commands posted to the worker, not yet dispatched
  evQ,       \* events posted by the worker, not yet handled
  tasks,     \* the executor's command bodies, in dispatch order
  loaders,   \* the from_pretrained promises ever created
  cache,     \* TextGenerationPipeline's static fields
  stop,      \* stopping_criteria.interrupted
  faults     \* number of failures so far

vars == <<ctl, owner, called, edit, acted, cmdQ, evQ, tasks, loaders, cache, stop, faults>>
workerVars == <<tasks, loaders, cache, stop, faults>>
ctlVars == <<ctl, owner, called, edit, acted>>

Last(s) == s[Len(s)]

\* --------------------------------------------------------------- messages

Cmd(type, model_id, data) == [type |-> type, model_id |-> model_id, data |-> data]

\* An event: status is the tag; text and n are the payload (output and
\* numTokens of an update, the file of a progress event, the model_id of
\* unsupported_model, the message of loading and error); task is a ghost
\* field, the index of the command body that posted it.
Event(status, task, text, n) == [status |-> status, task |-> task, text |-> text, n |-> n]

\* ----------------------------------------------------------- model cache

NewLoader(model_id, what, cb) ==
  [model_id |-> model_id, what |-> what, st |-> "pending", cb |-> cb, phase |-> 0]

\* A getInstance that would discard only the model when the identifier
\* changes (the cache's single identifier is tested against it).
GetInstanceKeepTokenizer(model_id, cb) ==
  LET c1 == IF cache.current_model_id # model_id
            THEN [cache EXCEPT !.current_model_id = model_id, !.model = 0]
            ELSE cache
      threw == model_id \notin Configs
      l1 == IF ~threw /\ c1.tokenizer = 0
            THEN Append(loaders, NewLoader(model_id, "tokenizer", cb))
            ELSE loaders
      tok == IF threw THEN 0 ELSE IF c1.tokenizer = 0 THEN Len(l1) ELSE c1.tokenizer
      l2 == IF ~threw /\ c1.model = 0
            THEN Append(l1, NewLoader(model_id, "model", cb))
            ELSE l1
      mod == IF threw THEN 0 ELSE IF c1.model = 0 THEN Len(l2) ELSE c1.model
  IN [cache |-> [c1 EXCEPT !.tokenizer = tok, !.model = mod],
      loaders |-> l2, tok |-> tok, mod |-> mod, threw |-> threw]

\* A getInstance that calls from_pretrained on every call (the sharing of
\* the cached promises is tested against it).
GetInstanceAlwaysLoads(model_id, cb) ==
  LET threw == model_id \notin Configs
      l2 == IF threw THEN loaders
            ELSE loaders \o <<NewLoader(model_id, "tokenizer", cb),
                              NewLoader(model_id, "model", cb)>>
      tok == IF threw THEN 0 ELSE Len(loaders) + 1
      mod == IF threw THEN 0 ELSE Len(loaders) + 2
  IN [cache |-> [current_model_id |-> model_id, tokenizer |-> tok, model |-> mod],
      loaders |-> l2, tok |-> tok, mod |-> mod, threw |-> threw]

\* TextGenerationPipeline.getInstance up to its return: the cache after the
\* call, the promises created, and the pair of promises Promise.all waits
\* for (0, 0 and threw when getModelConfig throws).
GetInstance(model_id, cb) ==
  LET c1 == IF cache.current_model_id # model_id
            THEN [current_model_id |-> model_id, tokenizer |-> 0, model |-> 0]
            ELSE cache
      threw == model_id \notin Configs
      l1 == IF ~threw /\ c1.tokenizer = 0
            THEN Append(loaders, NewLoader(model_id, "tokenizer", cb))
            ELSE loaders
      tok == IF threw THEN 0 ELSE IF c1.tokenizer = 0 THEN Len(l1) ELSE c1.tokenizer
      l2 == IF ~threw /\ c1.model = 0
            THEN Append(l1, NewLoader(model_id, "model", cb))
            ELSE l1
      mod == IF threw THEN 0 ELSE IF c1.model = 0 THEN Len(l2) ELSE c1.model
  IN [cache |-> [c1 EXCEPT !.tokenizer = tok, !.model = mod],
      loaders |-> l2, tok |-> tok, mod |-> mod, threw |-> threw]

\* The promise a task awaits (getInstance's result) has rejected / resolved.
Rejected(t) ==
  \/ t.threw
  \/ /\ ~t.threw
     /\ \/ loaders[t.tok].st = "rejected"
        \/ loaders[t.mod].st = "rejected"

Resolved(t) ==
  /\ ~t.threw
  /\ loaders[t.tok].st = "resolved"
  /\ loaders[t.mod].st = "resolved"

\* Body i is the first of the bodies waiting for its pair of promises: the
\* continuations of one promise run in the order in which they were attached.
First(ts, i) ==
  \A j \in 1..(i - 1) :
    ~(/\ ts[j].pc = "getInstance"
      /\ ts[j].tok = ts[i].tok
      /\ ts[j].mod = ts[i].mod)

\* The promise that body t awaits in getInstance has settled, and t's
\* continuation is a pending microtask.
Settled(t) == t.pc = "getInstance" /\ (Resolved(t) \/ Rejected(t))

\* ------------------------------------------------------------ the executor

\* A command body whose token counter is shared with the bodies before it (the
\* per-run counter is tested against it).
NewTaskSharedCounter(kind, model_id, pc, gi) ==
  [kind |-> kind, model_id |-> model_id, pc |-> pc,
   tok |-> gi.tok, mod |-> gi.mod, threw |-> gi.threw,
   ntok |-> IF \E i \in 1..Len(tasks) : tasks[i].ntok > 0 THEN 1 ELSE 0,
   emitted |-> <<>>, seen |-> "none", raised |-> stop]

\* A command body as the listener starts it.  emitted, seen and raised record
\* what it has posted, which of its events the controller has handled, and
\* whether the listener found the interrupt flag raised when it took the
\* command.
NewTask(kind, model_id, pc, gi) ==
  [kind |-> kind, model_id |-> model_id, pc |-> pc,
   tok |-> gi.tok, mod |-> gi.mod, threw |-> gi.threw,
   ntok |-> 0, emitted |-> <<>>, seen |-> "none", raised |-> stop]

NoInstance == [tok |-> 0, mod |-> 0, threw |-> FALSE]

\* self.postMessage from command body i, in the body's own record of what
\* it has emitted.
Emit(ts, i, status) == [ts EXCEPT ![i].emitted = Append(@, status)]

\* The event queue has room for one more event (a bound on the worker's
\* steps other than continuations).
CanPost == Len(evQ) < MaxPending

\* The listener has taken every command posted so far.  A command is
\* dispatched before any other step: the bodies and the controller do not
\* read the command queue, so a later dispatch changes no outcome.
Listening == cmdQ = <<>>

\* No continuation is pending.  Microtasks run before the worker takes its
\* next message, download report or decode step, so every other step of the
\* worker waits for the continuations of settled promises.
Quiet == \A i \in 1..Len(tasks) : ~Settled(tasks[i])

\* One more failure fits the run.
Fault == faults < MaxFaults /\ faults' = faults + 1

\* The message listener for a check command: check() runs up to its await.
DispatchCheck ==
  /\ tasks' = Append(tasks, NewTask("check", NoId, "adapter", NoInstance))
  /\ UNCHANGED <<loaders, cache, stop, evQ>>

\* The message listener for a load command, and load() up to its first await.
DispatchLoad(c) ==
  LET i == Len(tasks) + 1
      gi == GetInstance(c.model_id, i)
  IN IF c.model_id = NoId
     THEN /\ tasks' = Emit(Append(tasks, NewTask("load", NoId, "done", NoInstance)),
                          i, "error")
          /\ evQ' = Append(evQ, Event("error", i, ErrorText, 0))
          /\ UNCHANGED <<loaders, cache, stop>>
     ELSE /\ tasks' = Emit(Append(tasks, NewTask("load", c.model_id, "getInstance", gi)),
                          i, "loading")
          /\ evQ' = Append(evQ, Event("loading", i, "Loading model...", 0))
          /\ loaders' = gi.loaders
          /\ cache' = gi.cache
          /\ UNCHANGED stop

\* A listener that starts the generation without resetting the stopping
\* criteria (the reset at the start of each generation is tested against it).
DispatchGenerateNoReset(c) ==
  LET i == Len(tasks) + 1
      gi == GetInstance(c.model_id, 0)
  IN IF c.model_id = NoId
     THEN /\ tasks' = Emit(Append(tasks, NewTask("generate", NoId, "done", NoInstance)),
                          i, "error")
          /\ evQ' = Append(evQ, Event("error", i, ErrorText, 0))
          /\ UNCHANGED <<loaders, cache, stop>>
     ELSE /\ tasks' = Append(tasks, NewTask("generate", c.model_id, "getInstance", gi))
          /\ loaders' = gi.loaders
          /\ cache' = gi.cache
          /\ UNCHANGED <<evQ, stop>>

\* The message listener for a generate command, and generate() up to its
\* first await.
DispatchGenerate(c) ==
  LET i == Len(tasks) + 1
      gi == GetInstance(c.model_id, 0)
  IN IF c.model_id = NoId
     THEN /\ tasks' = Emit(Append(tasks, NewTask("generate", NoId, "done", NoInstance)),
                          i, "error")
          /\ evQ' = Append(evQ, Event("error", i, ErrorText, 0))
          /\ UNCHANGED <<loaders, cache, stop>>
     ELSE /\ stop' = FALSE
          /\ tasks' = Append(tasks, NewTask("generate", c.model_id, "getInstance", gi))
          /\ loaders' = gi.loaders
          /\ cache' = gi.cache
          /\ UNCHANGED evQ

\* A listener whose reset case also empties the model cache (the frame of
\* reset is tested against it).
DispatchResetClearsCache ==
  /\ cmdQ # <<>>
  /\ Quiet
  /\ Head(cmdQ).type = "load" => CanPost
  /\ Head(cmdQ).type \in {"check", "load", "generate"} => Len(tasks) < MaxTasks
  /\ cmdQ' = Tail(cmdQ)
  /\ LET c == Head(cmdQ)
     IN CASE c.type = "check" -> DispatchCheck
          [] c.type = "load" -> DispatchLoad(c)
          [] c.type = "generate" -> DispatchGenerate(c)
          [] c.type = "interrupt" ->
               stop' = TRUE /\ UNCHANGED <<tasks, loaders, cache, evQ>>
          [] c.type = "reset" ->
               /\ stop' = FALSE
               /\ cache' = [current_model_id |-> NoId, tokenizer |-> 0, model |-> 0]
               /\ UNCHANGED <<tasks, loaders, evQ>>
  /\ UNCHANGED <<ctlVars, faults>>

\* The worker's message listener: one command is taken and its case runs.
Dispatch ==
  /\ cmdQ # <<>>
  /\ Quiet
  /\ Head(cmdQ).type = "load" => CanPost
  /\ Head(cmdQ).type \in {"check", "load", "generate"} => Len(tasks) < MaxTasks
  /\ cmdQ' = Tail(cmdQ)
  /\ LET c == Head(cmdQ)
     IN CASE c.type = "check" -> DispatchCheck
          [] c.type = "load" -> DispatchLoad(c)
          [] c.type = "generate" -> DispatchGenerate(c)
          [] c.type = "interrupt" ->
               stop' = TRUE /\ UNCHANGED <<tasks, loaders, cache, evQ>>
          [] c.type = "reset" ->
               stop' = FALSE /\ UNCHANGED <<tasks, loaders, cache, evQ>>
  /\ UNCHANGED <<ctlVars, faults>>

\* check()'s catch block: the adapter request settled without an adapter and
\* an error is posted.  (With an adapter check() ends without a trace.)
CheckCatch(i) ==
  /\ Listening /\ CanPost /\ Quiet
  /\ tasks[i].kind = "check" /\ tasks[i].pc = "adapter"
  /\ Fault
  /\ tasks' = Emit([tasks EXCEPT ![i].pc = "done"], i, "error")
  /\ evQ' = Append(evQ, Event("error", i, ErrorText, 0))
  /\ UNCHANGED <<loaders, cache, stop, cmdQ, ctlVars>>

\* The loader reports its download through the progress callback it was given
\* (the model's weights; the tokenizer's small files are not followed here).
Reports(l) == loaders[l].cb # 0 /\ loaders[l].what = "model"

ProgressStatus(l) ==
  CASE loaders[l].phase = 0 -> "initiate"
    [] loaders[l].phase = 1 -> "progress"
    [] OTHER -> "done"

\* A progress event of loader l is posted by the callback of the load that
\* created the loader.
Progress(ts, l) == Emit(ts, loaders[l].cb, ProgressStatus(l))

\* from_pretrained at work: with a progress callback it reports initiate,
\* progress and done for its file, then its promise resolves; it can reject
\* at any point.
LoaderStep(l) ==
  /\ Listening /\ Quiet
  /\ loaders[l].st = "pending"
  /\ \/ /\ Reports(l) /\ loaders[l].phase < 3
        /\ CanPost
        /\ loaders' = [loaders EXCEPT ![l].phase = @ + 1]
        /\ tasks' = Progress(tasks, l)
        /\ evQ' = Append(evQ, Event(ProgressStatus(l), loaders[l].cb, loaders[l].what, 0))
        /\ UNCHANGED faults
     \/ /\ Reports(l) => loaders[l].phase = 3
        /\ loaders' = [loaders EXCEPT ![l].st = "resolved"]
        /\ UNCHANGED <<tasks, evQ, faults>>
     \/ /\ Fault
        /\ loaders' = [loaders EXCEPT ![l].st = "rejected"]
        /\ UNCHANGED <<tasks, evQ>>
  /\ UNCHANGED <<cache, stop, cmdQ, ctlVars>>

\* load() after getInstance resolved: the warm-up generation starts.
LoadGotInstance(i) ==
  /\ tasks[i].kind = "load" /\ tasks[i].pc = "getInstance"
  /\ Resolved(tasks[i]) /\ First(tasks, i)
  /\ tasks' = Emit([tasks EXCEPT ![i].pc = "warmup"], i, "loading")
  /\ evQ' = Append(evQ, Event("loading", i, "Compiling shaders and warming up model...", 0))
  /\ UNCHANGED <<loaders, cache, stop, faults, cmdQ, ctlVars>>

\* A catch block that would not tell getModelConfig's error apart (the
\* answer to an unsupported identifier is tested against it).
LoadCatchGeneric(i) ==
  /\ tasks[i].kind = "load" /\ tasks[i].pc = "getInstance"
  /\ Rejected(tasks[i]) /\ First(tasks, i)
  /\ tasks' = Emit([tasks EXCEPT ![i].pc = "done"], i, "error")
  /\ evQ' = Append(evQ, Event("error", i, ErrorText, 0))
  /\ UNCHANGED <<loaders, cache, stop, faults, cmdQ, ctlVars>>

\* load()'s catch block for a rejected getInstance: an error whose message
\* includes 'Unsupported model:' (getModelConfig's) becomes unsupported_model.
LoadCatch(i) ==
  /\ tasks[i].kind = "load" /\ tasks[i].pc = "getInstance"
  /\ Rejected(tasks[i]) /\ First(tasks, i)
  /\ LET status == IF tasks[i].threw THEN "unsupported_model" ELSE "error"
     IN /\ tasks' = Emit([tasks EXCEPT ![i].pc = "done"], i, status)
        /\ evQ' = Append(evQ, Event(status, i,
                     IF tasks[i].threw THEN tasks[i].model_id ELSE ErrorText, 0))
  /\ UNCHANGED <<loaders, cache, stop, faults, cmdQ, ctlVars>>

\* load(): the warm-up generation settles; ready, or the catch block's error.
LoadWarmup(i) ==
  /\ Listening /\ CanPost /\ Quiet
  /\ tasks[i].kind = "load" /\ tasks[i].pc = "warmup"
  /\ \/ /\ tasks' = Emit([tasks EXCEPT ![i].pc = "done"], i, "ready")
        /\ evQ' = Append(evQ, Event("ready", i, "", 0))
        /\ UNCHANGED faults
     \/ /\ Fault
        /\ tasks' = Emit([tasks EXCEPT ![i].pc = "done"], i, "error")
        /\ evQ' = Append(evQ, Event("error", i, ErrorText, 0))
  /\ UNCHANGED <<loaders, cache, stop, cmdQ, ctlVars>>

\* A generate() that would begin decoding without posting start (the ordering
\* of a generation's events is tested against it).
GenGotInstanceSilent(i) ==
  /\ tasks[i].kind = "generate" /\ tasks[i].pc = "getInstance"
  /\ Resolved(tasks[i]) /\ First(tasks, i)
  /\ tasks' = [tasks EXCEPT ![i].pc = "decoding"]
  /\ UNCHANGED <<evQ, loaders, cache, stop, faults, cmdQ, ctlVars>>

\* generate() after getInstance resolved: the chat template is applied, start
\* is posted and model.generate begins.
GenGotInstance(i) ==
  /\ tasks[i].kind = "generate" /\ tasks[i].pc = "getInstance"
  /\ Resolved(tasks[i]) /\ First(tasks, i)
  /\ tasks' = Emit([tasks EXCEPT ![i].pc = "decoding"], i, "start")
  /\ evQ' = Append(evQ, Event("start", i, "", 0))
  /\ UNCHANGED <<loaders, cache, stop, faults, cmdQ, ctlVars>>

\* generate() has no try/catch and the listener does not await it: a rejected
\* getInstance or a throwing model.generate ends the body with an unhandled
\* rejection, and nothing is posted.
GenFail(i) ==
  /\ tasks[i].kind = "generate"
  /\ \/ /\ tasks[i].pc = "getInstance"
        /\ Rejected(tasks[i]) /\ First(tasks, i)
        /\ UNCHANGED faults
     \/ /\ tasks[i].pc = "decoding"
        /\ Listening /\ Quiet
        /\ Fault
  /\ tasks' = [tasks EXCEPT ![i].pc = "failed"]
  /\ UNCHANGED <<loaders, cache, stop, cmdQ, evQ, ctlVars>>

\* One decode step of model.generate: a token is produced, the streamer's
\* callbacks count it and post an update, then the stopping criteria are
\* polled (the interrupt flag, the token limit, or an end-of-sequence token).
GenStep(i) ==
  /\ Listening /\ CanPost /\ Quiet
  /\ tasks[i].kind = "generate" /\ tasks[i].pc = "decoding"
  /\ tasks[i].ntok < MaxTokens
  /\ \E eos \in BOOLEAN :
       LET n == tasks[i].ntok + 1
           ended == stop \/ eos \/ n = MaxTokens
       IN /\ tasks' = Emit([tasks EXCEPT ![i].ntok = n,
                                         ![i].pc = IF ended THEN "decoded" ELSE "decoding"],
                           i, "update")
          /\ evQ' = Append(evQ, Event("update", i, Chunk, n))
  /\ UNCHANGED <<loaders, cache, stop, faults, cmdQ, ctlVars>>

\* generate() after model.generate returned: the text is decoded and complete
\* is posted.
GenComplete(i) ==
  /\ Listening /\ CanPost /\ Quiet
  /\ tasks[i].kind = "generate" /\ tasks[i].pc = "decoded"
  /\ tasks' = Emit([tasks EXCEPT ![i].pc = "done"], i, "complete")
  /\ evQ' = Append(evQ, Event("complete", i, "", 0))
  /\ UNCHANGED <<loaders, cache, stop, faults, cmdQ, ctlVars>>

WorkerStep ==
  \/ Dispatch
  \/ \E i \in 1..Len(tasks) : CheckCatch(i)
  \/ \E i \in 1..Len(tasks) : LoadGotInstance(i)
  \/ \E i \in 1..Len(tasks) : LoadCatch(i)
  \/ \E i \in 1..Len(tasks) : LoadWarmup(i)
  \/ \E i \in 1..Len(tasks) : GenGotInstance(i)
  \/ \E i \in 1..Len(tasks) : GenFail(i)
  \/ \E i \in 1..Len(tasks) : GenStep(i)
  \/ \E i \in 1..Len(tasks) : GenComplete(i)
  \/ \E l \in 1..Len(loaders) : LoaderStep(l)

\* ---------------------------------------------------------- the controller

UserMsg(m) == [role |-> "user", content |-> <<m>>]
AssistantMsg == [role |-> "assistant", content |-> <<>>]

\* A getStoredModel that returns whatever is stored (the validation against
\* the catalog is tested against it).
GetStoredModelUnvalidated(raw) == [value |-> raw, storage |-> raw]

\* getStoredModel: the stored identifier, validated against the catalog; an
\* identifier that is no longer available is removed from the storage.
GetStoredModel(raw) ==
  IF raw # None /\ raw \notin AVAILABLE_MODELS
  THEN [value |-> None, storage |-> None]
  ELSE [value |-> raw, storage |-> raw]

\* The state of App's first render.
InitialCtl ==
  [status |-> None, error |-> None, loadingMessage |-> "", progressItems |-> <<>>,
   isRunning |-> FALSE, selectedModel |-> M1, showModelSelectionModal |-> FALSE,
   messages |-> <<>>, queuedMessage |-> None,
   tps |-> None, numTokens |-> None, contextTokens |-> None,
   stored |-> None, crashed |-> FALSE]

\* What a handler leaves behind: the state of the next render, the commands
\* it posted, whether it called setMessages (a new array is a changed
\* dependency even when its content is the same), and whether it returned
\* before doing anything.
Result(c, post, touched) == [c |-> c, post |-> post, touched |-> touched, early |-> FALSE]
EarlyReturn(c) == [c |-> c, post |-> <<>>, touched |-> FALSE, early |-> TRUE]

\* An onEnter without its first guard (the rejection of a second queued
\* message is tested against it).
OnEnterUnguarded(c, m) ==
  LET c1 == [c EXCEPT !.messages = Append(@, UserMsg(m)), !.tps = None]
  IN IF c.status # "ready"
     THEN Result([c1 EXCEPT !.queuedMessage = m, !.status = "loading"],
                 IF c.status # "loading"
                 THEN <<Cmd("load", c.selectedModel, <<>>)>>
                 ELSE <<>>,
                 TRUE)
     ELSE Result([c1 EXCEPT !.isRunning = TRUE], <<>>, TRUE)

\* onEnter(message)
OnEnter(c, m) ==
  IF c.status = "loading" /\ c.queuedMessage # None
  THEN EarlyReturn(c)
  ELSE LET c1 == [c EXCEPT !.messages = Append(@, UserMsg(m)), !.tps = None]
       IN IF c.status # "ready"
          THEN Result([c1 EXCEPT !.queuedMessage = m, !.status = "loading"],
                      IF c.status # "loading"
                      THEN <<Cmd("load", c.selectedModel, <<>>)>>
                      ELSE <<>>,
                      TRUE)
          ELSE Result([c1 EXCEPT !.isRunning = TRUE], <<>>, TRUE)

\* onInterrupt()
OnInterrupt(c) == Result(c, <<Cmd("interrupt", NoId, <<>>)>>, FALSE)

\* onEditMessage(messageIndex, newContent); i is the 1-based position of
\* messageIndex.
OnEditMessage(c, i, t) ==
  LET updated == [c.messages EXCEPT ![i].content = <<t>>]
      c1 == [c EXCEPT !.messages = SubSeq(updated, 1, i),
                      !.tps = None, !.numTokens = None]
  IN Result(IF c.status = "ready" THEN [c1 EXCEPT !.isRunning = TRUE] ELSE c1,
            <<>>, TRUE)

\* A handleModelChange that loads the new model without selecting it (the
\* agreement of generate with the last load is tested against it).
HandleModelChangeKeepsSelection(c, id) ==
  IF id = c.selectedModel THEN EarlyReturn(c)
  ELSE IF c.isRunning \/ c.status = "loading" THEN EarlyReturn(c)
  ELSE Result([c EXCEPT !.stored = id, !.status = "loading",
                        !.queuedMessage = None, !.progressItems = <<>>],
              <<Cmd("load", id, <<>>)>>, FALSE)

\* A handleModelChange that keeps the queued message (the clearing of
\* queuedMessage is tested against it).
HandleModelChangeKeepsQueue(c, id) ==
  IF id = c.selectedModel THEN EarlyReturn(c)
  ELSE IF c.isRunning \/ c.status = "loading" THEN EarlyReturn(c)
  ELSE Result([c EXCEPT !.selectedModel = id, !.stored = id, !.status = "loading",
                        !.progressItems = <<>>],
              <<Cmd("load", id, <<>>)>>, FALSE)

\* handleModelChange(modelId)
HandleModelChange(c, id) ==
  IF id = c.selectedModel THEN EarlyReturn(c)
  ELSE IF c.isRunning \/ c.status = "loading" THEN EarlyReturn(c)
  ELSE Result([c EXCEPT !.selectedModel = id, !.stored = id, !.status = "loading",
                        !.queuedMessage = None, !.progressItems = <<>>],
              <<Cmd("load", id, <<>>)>>, FALSE)

\* handleInitialModelSelect(modelId), followed by the modal's onClose.
HandleInitialModelSelect(c, id) ==
  Result([c EXCEPT !.selectedModel = id, !.stored = id, !.status = "loading",
                   !.progressItems = <<>>, !.showModelSelectionModal = FALSE],
         <<Cmd("load", id, <<>>)>>, FALSE)

\* The New Chat button's onClick.
NewChat(c) ==
  Result([c EXCEPT !.messages = <<>>, !.queuedMessage = None],
         <<Cmd("reset", NoId, <<>>)>>, TRUE)

\* onMessageReceived is created by an effect with an empty dependency list:
\* the queuedMessage it reads is the one of the first render.
StaleQueuedMessage == InitialCtl.queuedMessage

\* The progress collection after a progress-family event.
ProgressItems(items, e) ==
  CASE e.status = "initiate" -> Append(items, [file |-> e.text, status |-> "initiate"])
    [] e.status = "progress" ->
         [k \in 1..Len(items) |->
            IF items[k].file = e.text THEN [items[k] EXCEPT !.status = "progress"]
            ELSE items[k]]
    [] e.status = "done" -> SelectSeq(items, LAMBDA it : it.file # e.text)

\* An error case that also discards the conversation (the preservation of
\* the history is tested against it).
OnErrorDiscardsHistory(c, e) ==
  Result([c EXCEPT !.error = e.text, !.status = None, !.isRunning = FALSE,
                   !.messages = <<>>],
         <<>>, TRUE)

\* onMessageReceived, case "error"
OnError(c, e) ==
  Result([c EXCEPT !.error = e.text, !.status = None, !.isRunning = FALSE],
         <<>>, FALSE)

\* An unsupported_model case that reports the identifier as an error (the
\* distinct recovery path is tested against it).
OnUnsupportedModelAsError(c, e) ==
  Result([c EXCEPT !.stored = None, !.error = e.text, !.status = None,
                   !.isRunning = FALSE, !.progressItems = <<>>,
                   !.showModelSelectionModal = TRUE], <<>>, FALSE)

\* onMessageReceived, case "unsupported_model"
OnUnsupportedModel(c, e) ==
  Result([c EXCEPT !.stored = None, !.error = None, !.status = None,
                   !.isRunning = FALSE, !.progressItems = <<>>,
                   !.showModelSelectionModal = TRUE], <<>>, FALSE)

\* onMessageReceived(e)
OnMessageReceived(c, e) ==
  CASE e.status = "loading" ->
         Result([c EXCEPT !.status = "loading", !.loadingMessage = e.text], <<>>, FALSE)
    [] e.status \in {"initiate", "progress", "done"} ->
         Result([c EXCEPT !.progressItems = ProgressItems(@, e)], <<>>, FALSE)
    [] e.status = "ready" ->
         IF StaleQueuedMessage # None
         THEN Result([c EXCEPT !.status = "ready", !.queuedMessage = None,
                               !.isRunning = TRUE], <<>>, FALSE)
         ELSE Result([c EXCEPT !.status = "ready"], <<>>, FALSE)
    [] e.status = "start" ->
         Result([c EXCEPT !.isRunning = TRUE, !.messages = Append(@, AssistantMsg)],
                <<>>, TRUE)
    [] e.status = "update" ->
         LET c1 == [c EXCEPT !.tps = IF e.n > 1 THEN "number" ELSE Undefined,
                             !.numTokens = e.n, !.contextTokens = Undefined]
         IN IF c.messages = <<>>
            \* cloned.at(-1) is undefined: last.content throws in the updater
            THEN Result([c1 EXCEPT !.crashed = TRUE], <<>>, FALSE)
            ELSE Result([c1 EXCEPT !.messages[Len(c.messages)].content =
                                      Append(@, e.text)], <<>>, TRUE)
    [] e.status = "complete" ->
         Result([c EXCEPT !.isRunning = FALSE], <<>>, FALSE)
    [] e.status = "error" -> OnError(c, e)
    [] e.status = "unsupported_model" -> OnUnsupportedModel(c, e)

HasUserMessage(msgs) == \E k \in 1..Len(msgs) : msgs[k].role = "user"

\* A generate effect without the test of the last entry (the shape of the
\* history a generate command carries is tested against it).
GenerateEffectRunsAnyLast(old, r) ==
  /\ \/ r.touched
     \/ r.c.isRunning # old.isRunning
     \/ r.c.selectedModel # old.selectedModel
  /\ HasUserMessage(r.c.messages)

\* The effect with dependencies [messages, isRunning, selectedModel]: it runs
\* after a render in which one of them changed, and posts generate unless
\* there is no user message or the last message is the assistant's.
GenerateEffectRuns(old, r) ==
  /\ \/ r.touched
     \/ r.c.isRunning # old.isRunning
     \/ r.c.selectedModel # old.selectedModel
  /\ HasUserMessage(r.c.messages)
  /\ Last(r.c.messages).role # "assistant"

\* A generate effect that reads the selection of the previous render.
GenerateEffectStaleModel(old, r) ==
  IF GenerateEffectRuns(old, r)
  THEN <<Cmd("generate", old.selectedModel, r.c.messages)>>
  ELSE <<>>

GenerateEffect(old, r) ==
  IF GenerateEffectRuns(old, r)
  THEN <<Cmd("generate", r.c.selectedModel, r.c.messages)>>
  ELSE <<>>

\* A handler has run: the next render's state, the commands of the handler
\* and of the effect (which also resets tps), in that order.
Commit(r, op, gen) ==
  LET post == r.post \o GenerateEffect(ctl, r)
  IN /\ Listening
     /\ ~ctl.crashed
     /\ ctl' = IF GenerateEffectRuns(ctl, r) THEN [r.c EXCEPT !.tps = None] ELSE r.c
     /\ cmdQ' = cmdQ \o post
     /\ owner' = IF Len(r.c.messages) > Len(owner)
                 THEN Append(owner, gen)
                 ELSE SubSeq(owner, 1, Len(r.c.messages))
     /\ called' = [op |-> op, early |-> r.early]

\* The worker's next event is handled.
Deliver ==
  /\ evQ # <<>>
  /\ LET e == Head(evQ)
     IN /\ Commit(OnMessageReceived(ctl, e), "onMessageReceived",
                  IF e.status = "start" THEN e.task ELSE 0)
        /\ tasks' = IF e.status = "start" THEN [tasks EXCEPT ![e.task].seen = "started"]
                    ELSE IF e.status = "complete"
                    THEN [tasks EXCEPT ![e.task].seen = "ended"]
                    ELSE tasks
  /\ evQ' = Tail(evQ)
  /\ UNCHANGED <<acted, edit, loaders, cache, stop, faults>>

\* After the crash the component is unmounted and its listener removed: the
\* worker's events are dropped.
Drop ==
  /\ evQ # <<>>
  /\ ctl.crashed
  /\ Listening
  /\ evQ' = Tail(evQ)
  /\ UNCHANGED <<ctlVars, cmdQ, workerVars>>

\* ------------------------------------------------------ calls of the handlers

\* One more user action fits the run.
Act == acted < MaxActions /\ acted' = acted + 1

NoEdit == [i |-> 0, t |-> "", before |-> <<>>, task |-> 0]

CallOnEnter(m) ==
  /\ Act
  /\ Commit(OnEnter(ctl, m), "onEnter", 0)
  /\ edit' = NoEdit
  /\ UNCHANGED <<evQ, workerVars>>

CallOnInterrupt ==
  /\ Act
  /\ Commit(OnInterrupt(ctl), "onInterrupt", 0)
  /\ edit' = NoEdit
  /\ UNCHANGED <<evQ, workerVars>>

CallNewChat ==
  /\ Act
  /\ Commit(NewChat(ctl), "newChat", 0)
  /\ edit' = NoEdit
  /\ UNCHANGED <<evQ, workerVars>>

\* The generation an edit starts is the body of the generate command its
\* render posts: the next body of the executor.
CallOnEditMessage(i, t) ==
  /\ i \in 1..Len(ctl.messages)
  /\ Act
  /\ Commit(OnEditMessage(ctl, i, t), "onEditMessage", 0)
  /\ edit' = [i |-> i, t |-> t, before |-> SubSeq(ctl.messages, 1, i - 1),
              task |-> Len(tasks) + 1]
  /\ UNCHANGED <<evQ, workerVars>>

CallHandleModelChange(id) ==
  /\ Act
  /\ Commit(HandleModelChange(ctl, id), "handleModelChange", 0)
  /\ edit' = NoEdit
  /\ UNCHANGED <<evQ, workerVars>>

CallHandleInitialModelSelect(id) ==
  /\ Act
  /\ Commit(HandleInitialModelSelect(ctl, id), "handleInitialModelSelect", 0)
  /\ edit' = NoEdit
  /\ UNCHANGED <<evQ, workerVars>>

\* Any handler, at any time, with any argument.
CallStep ==
  \/ \E m \in SubmitTexts : CallOnEnter(m) /\ acted < MaxCalls
  \/ CallOnInterrupt /\ acted < MaxCalls
  \/ CallNewChat /\ acted < MaxCalls
  \/ \E i \in 1..Len(ctl.messages), t \in EditTexts :
       CallOnEditMessage(i, t) /\ acted < MaxCalls
  \/ \E id \in AVAILABLE_MODELS \cup {MX} :
       CallHandleModelChange(id) /\ acted < MaxCalls
  \/ \E id \in AVAILABLE_MODELS \cup {MX} :
       CallHandleInitialModelSelect(id) /\ acted < MaxCalls

\* ------------------------------------------------- what the page lets a user do

\* The textarea and the send button.
CanSend == ~ctl.isRunning /\ ~(ctl.status = "loading" /\ ctl.queuedMessage # None)
\* The example prompts.
ExamplesShown == ctl.messages = <<>> /\ ctl.status \in {"ready", None}
\* The selection modal covers the page.
PageReachable == ~ctl.showModelSelectionModal

UserSubmit(m) ==
  /\ PageReachable
  /\ CanSend \/ ExamplesShown
  /\ CallOnEnter(m)

\* The stop button takes the place of the send button while isRunning.
UserInterrupt ==
  /\ PageReachable
  /\ ctl.isRunning
  /\ CallOnInterrupt

UserNewChat ==
  /\ PageReachable
  /\ ~ctl.isRunning
  /\ CallNewChat

\* The Edit button of a user message (Chat shows it while nothing runs and
\* takes no pointer events while loading).
UserEdit(i, t) ==
  /\ PageReachable
  /\ ~ctl.isRunning /\ ctl.status # "loading"
  /\ i \in 1..Len(ctl.messages) /\ ctl.messages[i].role = "user"
  /\ CallOnEditMessage(i, t)

\* The model selector's dropdown.
UserModelChange(id) ==
  /\ PageReachable
  /\ ~(ctl.isRunning \/ ctl.status = "loading")
  /\ id # ctl.selectedModel
  /\ CallHandleModelChange(id)

\* The selection modal's Continue button.
UserModalContinue(id) ==
  /\ ctl.showModelSelectionModal
  /\ CallHandleInitialModelSelect(id)

UserStep ==
  \/ \E m \in SubmitTexts : UserSubmit(m)
  \/ UserInterrupt
  \/ UserNewChat
  \/ \E i \in 1..Len(ctl.messages), t \in EditTexts : UserEdit(i, t)
  \/ \E id \in AVAILABLE_MODELS : UserModelChange(id)
  \/ \E id \in AVAILABLE_MODELS : UserModalContinue(id)

\* ---------------------------------------------------------- specifications

\* Mount: the worker is created and sent a check; the stored selection, if
\* valid, is loaded at once, otherwise the selection modal is shown.
Mounted(raw) ==
  LET s == GetStoredModel(raw)
  IN IF s.value # None
     THEN /\ ctl = [InitialCtl EXCEPT !.selectedModel = s.value, !.status = "loading",
                                      !.stored = s.storage]
          /\ cmdQ = <<Cmd("check", NoId, <<>>), Cmd("load", s.value, <<>>)>>
     ELSE /\ ctl = [InitialCtl EXCEPT !.showModelSelectionModal = TRUE,
                                      !.stored = s.storage]
          /\ cmdQ = <<Cmd("check", NoId, <<>>)>>

Init ==
  /\ \E raw \in {None, M1, MX} : Mounted(raw)
  /\ owner = <<>>
  /\ called = [op |-> "mount", early |-> FALSE]
  /\ edit = NoEdit
  /\ acted = 0
  /\ faults = 0
  /\ evQ = <<>>
  /\ tasks = <<>>
  /\ loaders = <<>>
  /\ cache = [current_model_id |-> None, tokenizer |-> 0, model |-> 0]
  /\ stop = FALSE

\* The page as a user can drive it.
Next == UserStep \/ Deliver \/ Drop \/ WorkerStep

Spec == Init /\ [][Next]_vars

\* The handlers as an interface: called at any time, whatever the page shows.
NextOpen == CallStep \/ Deliver \/ Drop \/ WorkerStep

SpecOpen == Init /\ [][NextOpen]_vars

\* ------------------------------------------------------------- properties

Count(s, x) == Cardinality({k \in 1..Len(s) : s[k] = x})
EndsWith(s, x) == s # <<>> /\ Last(s) = x

Generations == {i \in 1..Len(tasks) : tasks[i].kind = "generate"}
Loads == {i \in 1..Len(tasks) : tasks[i].kind = "load"}

\* The body of command i has run to its end (returned or thrown).
Ended(i) == tasks[i].pc \in {"done", "failed"}
\* The body of load or generate command i is in progress.
InProgress(i) == tasks[i].kind \in {"load", "generate"} /\ ~Ended(i)

\* The step is a call of handler op by the user.
Calls(op) == acted' = acted + 1 /\ called'.op = op
\* The commands a step posts (the listener has taken all earlier ones).
Posted(type) == {k \in 1..Len(cmdQ') : cmdQ'[k].type = type}

\* C1: after load, generate and interrupt (the interrupt flag is raised while
\* the generation is in progress), the generation's body ends having emitted
\* exactly one complete, as its last event (no update follows it).
C1_InterruptedGenerationCompletes ==
  [][\A i \in Generations :
       (stop /\ ~Ended(i) /\ tasks'[i].pc \in {"done", "failed"})
       => /\ Count(tasks'[i].emitted, "complete") = 1
          /\ EndsWith(tasks'[i].emitted, "complete")]_vars

\* C2: the executor never has two command bodies (load or generate) in
\* progress at the same moment.
C2_OneCommandAtATime ==
  Cardinality({i \in 1..Len(tasks) : InProgress(i)}) <= 1

\* C3: a submission made while status = loading and nothing is queued sets
\* queuedMessage to the text and issues no generate command.
C3_QueuedSubmitDefersGenerate ==
  [][(ctl.status = "loading" /\ ctl.queuedMessage = None /\ Calls("onEnter"))
     => /\ ctl'.queuedMessage \in SubmitTexts
        /\ Posted("generate") = {}]_vars

\* C4: an onEnter call made while status = loading and a message is queued
\* leaves every controller field unchanged and issues no command (so the one
\* queued message stays the only one).
C4_SecondSubmitRejected ==
  [][(ctl.status = "loading" /\ ctl.queuedMessage # None /\ Calls("onEnter"))
     => /\ ctl' = ctl
        /\ cmdQ' = cmdQ]_vars

\* A second onEnter was called while loading with a message queued.
C4_Witness ==
  /\ called = [op |-> "onEnter", early |-> TRUE]
  /\ ctl.status = "loading"
  /\ ctl.queuedMessage \in SubmitTexts
  /\ Len(ctl.messages) = 1

\* C5: a model switch (handleModelChange or handleInitialModelSelect) called
\* while isRunning or status = loading changes neither selectedModel, status,
\* queuedMessage, the progress items nor the persisted selection, and issues
\* no load command.
C5_SwitchWhileBusyHasNoEffect ==
  [][(/\ ctl.isRunning \/ ctl.status = "loading"
      /\ Calls("handleModelChange") \/ Calls("handleInitialModelSelect"))
     => /\ ctl'.selectedModel = ctl.selectedModel
        /\ ctl'.status = ctl.status
        /\ ctl'.queuedMessage = ctl.queuedMessage
        /\ ctl'.progressItems = ctl.progressItems
        /\ ctl'.stored = ctl.stored
        /\ Posted("load") = {}]_vars

\* C6: once the generation started by onEditMessage(i, t) has run to
\* completion (its complete event is handled) and no other user action came
\* in between, messages is the entries before i, unchanged, the edited entry
\* with content t, and one assistant reply.
C6_EditRoundTrip ==
  (/\ edit.i > 0
   /\ edit.task <= Len(tasks)
   /\ tasks[edit.task].kind = "generate"
   /\ tasks[edit.task].seen = "ended")
  => /\ Len(ctl.messages) = edit.i + 1
     /\ ctl.messages[edit.i].content = <<edit.t>>
     /\ SubSeq(ctl.messages, 1, edit.i - 1) = edit.before
     /\ Last(ctl.messages).role = "assistant"

\* The last entry of messages is an assistant entry whose generation has had
\* its start event handled and not yet its complete event.
Streaming ==
  /\ ctl.messages # <<>>
  /\ Last(ctl.messages).role = "assistant"
  /\ Len(owner) = Len(ctl.messages)
  /\ Last(owner) > 0
  /\ tasks[Last(owner)].seen = "started"

\* C7: no step appends a user message to messages while the previous
\* assistant entry is still streaming.
C7_NoSubmitWhileStreaming ==
  [][(/\ Len(ctl'.messages) = Len(ctl.messages) + 1
      /\ Last(ctl'.messages).role = "user")
     => ~Streaming]_vars

\* start, update*, complete, or a prefix of it.
IsGenerationPrefix(s) ==
  \A k \in 1..Len(s) :
    /\ k = 1 => s[k] = "start"
    /\ k > 1 => s[k] \in {"update", "complete"}
    /\ s[k] = "complete" => k = Len(s)

\* C8: the events the executor has emitted for a generate command always form
\* a prefix of start, update*, complete.
C8_GenerateEventsOrdered ==
  \A i \in Generations : IsGenerationPrefix(tasks[i].emitted)

\* A generation has emitted start, two updates and complete, and another has
\* failed after its start.
C8_Witness ==
  /\ \E i \in Generations :
       tasks[i].emitted = <<"start", "update", "update", "complete">>
  /\ \E i \in Generations :
       tasks[i].pc = "failed" /\ tasks[i].emitted # <<>>

Terminal == {"ready", "unsupported_model", "error"}

\* C9: a load command is answered by at most one terminal event, by exactly
\* one once its body has ended, and the load emits nothing after it.
C9_LoadEndsWithOneTerminal ==
  \A i \in Loads :
    LET s == tasks[i].emitted
    IN /\ Cardinality({k \in 1..Len(s) : s[k] \in Terminal}) <= 1
       /\ \A k \in 1..Len(s) : s[k] \in Terminal => k = Len(s)
       /\ Ended(i) => \E k \in 1..Len(s) : s[k] \in Terminal

\* C10: a generate command whose body has failed has emitted an error event
\* as its last event.
C10_GenerateFailureBecomesError ==
  \A i \in Generations :
    tasks[i].pc = "failed" => EndsWith(tasks[i].emitted, "error")

\* C11: a load for an identifier without a configuration emits loading and
\* then, as its only other event, unsupported_model; the event carries the
\* requested identifier; the load never emits error.
C11_UnsupportedModelAnswer ==
  /\ \A i \in Loads :
       tasks[i].model_id \notin Configs
       => /\ Count(tasks[i].emitted, "error") = 0
          /\ Ended(i) => tasks[i].emitted = <<"loading", "unsupported_model">>
  /\ \A k \in 1..Len(evQ) :
       evQ[k].status = "unsupported_model"
       => /\ tasks[evQ[k].task].model_id \notin Configs
          /\ evQ[k].text = tasks[evQ[k].task].model_id

\* A load of MX has been answered and its answer is on its way.
C11_Witness ==
  \E i \in Loads :
    /\ tasks[i].model_id = MX
    /\ tasks[i].emitted = <<"loading", "unsupported_model">>
    /\ \E k \in 1..Len(evQ) : evQ[k] = Event("unsupported_model", i, MX, 0)

\* The cached handle h (0 when absent) is a promise of kind what for the
\* cached identifier.
CachedFor(h, what) ==
  h # 0 => /\ loaders[h].model_id = cache.current_model_id
           /\ loaders[h].what = what

\* C12: the cached tokenizer and the cached model are always those of the one
\* cached identifier, and a step that changes the cached identifier keeps
\* neither of the old handles: the handles it leaves are promises it created.
C12_CacheHoldsOneModel ==
  /\ [](CachedFor(cache.tokenizer, "tokenizer") /\ CachedFor(cache.model, "model"))
  /\ [][cache'.current_model_id # cache.current_model_id
        => /\ cache'.tokenizer \in {0} \cup ((Len(loaders) + 1)..Len(loaders'))
           /\ cache'.model \in {0} \cup ((Len(loaders) + 1)..Len(loaders'))]_vars

\* The cache holds M2's pair after it held M1's.
C12_Witness ==
  /\ cache.current_model_id = M2
  /\ cache.tokenizer # 0 /\ cache.model # 0
  /\ \E l \in 1..Len(loaders) : loaders[l].model_id = M1

\* Generation i is decoding and the executor has processed an interrupt since
\* the last generate command.
Interrupted(i) == stop /\ tasks[i].pc = "decoding"

\* The body of task i took a step.
Stepped(i) == tasks'[i].pc # tasks[i].pc \/ tasks'[i].emitted # tasks[i].emitted

\* C13: while an interrupted generation is still decoding the interrupt flag
\* stays set, its next step is the decode step that ends it (with the update
\* of the text so far), and from there it emits complete.
C13_InterruptStopsGeneration ==
  [][\A i \in Generations :
       /\ Interrupted(i)
          => /\ tasks'[i].pc = "decoding" => stop'
             /\ Stepped(i) => /\ tasks'[i].pc = "decoded"
                               /\ EndsWith(tasks'[i].emitted, "update")
       /\ (tasks[i].pc = "decoded" /\ Stepped(i))
          => EndsWith(tasks'[i].emitted, "complete")]_vars

Assistants(msgs) == Cardinality({k \in 1..Len(msgs) : msgs[k].role = "assistant"})

\* The controller handles the worker's next event, whose status is given.
Handles(status) ==
  /\ evQ # <<>>
  /\ Head(evQ).status = status
  /\ evQ' = Tail(evQ)
  /\ ~ctl.crashed

\* C14: every generate command carries the model selected in the render that
\* posts it (after a switch, the new model), a submission that is not
\* rejected posts one, and messages gains an assistant entry exactly in the
\* steps that handle a start event, as a new empty last entry.
C14_GenerateForSelectedModel ==
  [][/\ cmdQ = <<>>
        => \A k \in Posted("generate") : cmdQ'[k].model_id = ctl'.selectedModel
     /\ (Calls("onEnter") /\ ~called'.early)
        => \E k \in Posted("generate") : cmdQ'[k].data = ctl'.messages
     /\ Assistants(ctl'.messages) > Assistants(ctl.messages) => Handles("start")
     /\ Handles("start") => ctl'.messages = Append(ctl.messages, AssistantMsg)]_vars

C14_Witness ==
  /\ ctl.selectedModel = M2
  /\ ctl.stored = M2
  /\ \E l \in Loads : tasks[l].model_id = M1
  /\ \E i \in Generations :
       /\ tasks[i].model_id = M2
       /\ tasks[i].seen = "started"
       /\ Len(ctl.messages) = 2
       /\ Last(ctl.messages) = AssistantMsg
       /\ owner[2] = i

\* The update events that a step posts.
PostedUpdates == {k \in (Len(evQ) + 1)..Len(evQ') : evQ'[k].status = "update"}

\* C15: the token count of a generate run never decreases, every update the
\* run posts carries the count reached at that moment, and a run that has
\* posted no update yet has counted no token (each run counts from zero).
C15_TokenCountPerRun ==
  /\ [](\A i \in Generations :
          Count(tasks[i].emitted, "update") = 0 => tasks[i].ntok = 0)
  /\ [][/\ \A i \in Generations : tasks'[i].ntok >= tasks[i].ntok
        /\ Len(evQ') > Len(evQ)
           => \A k \in PostedUpdates :
                /\ evQ'[k].n = tasks'[evQ'[k].task].ntok
                /\ evQ'[k].n >= tasks[evQ'[k].task].ntok]_vars

C15_Witness ==
  \E i, j \in Generations :
    /\ i < j
    /\ tasks[i].ntok = MaxTokens
    /\ tasks[j].ntok = 1
    /\ evQ # <<>>
    /\ Last(evQ) = Event("update", j, Chunk, 1)

\* C16: the step in which the controller handles an error event posts no
\* load and no generate command.
C16_NoRetryAfterError ==
  [][Handles("error") => Posted("load") = {} /\ Posted("generate") = {}]_vars

\* C17: the step that handles a ready event sets status to ready and, when a
\* message is queued at that moment, clears queuedMessage and sets isRunning.
C17_ReadyStartsQueuedMessage ==
  [][Handles("ready")
     => /\ ctl'.status = "ready"
        /\ ctl.queuedMessage # None
           => ctl'.queuedMessage = None /\ ctl'.isRunning]_vars

\* Nothing is left that could end a run: no command waits, no event waits,
\* every load and generate body has ended, and check() has posted its error
\* or can no longer fail (it found its adapter and ends without an event).
ExecutorIdle ==
  /\ cmdQ = <<>>
  /\ evQ = <<>>
  /\ \A i \in 1..Len(tasks) :
       Ended(i) \/ (tasks[i].kind = "check" /\ faults = MaxFaults)

\* C18: while isRunning is true the executor still owes an event: a command,
\* an event or an unfinished body remains from which complete, error or
\* unsupported_model can come (otherwise isRunning stays true for ever).
C18_RunningEndsEventually ==
  (ctl.isRunning /\ ~ctl.crashed) => ~ExecutorIdle

\* C19: every step that handles an update event finds messages non-empty
\* with an assistant entry last.
C19_UpdateLandsOnAssistant ==
  [][Handles("update")
     => ctl.messages # <<>> /\ Last(ctl.messages).role = "assistant"]_vars

\* Load i has been dispatched and the controller has not handled its terminal
\* event yet: its body runs, or its terminal event waits in the queue.
LoadInProgress(i) ==
  /\ tasks[i].kind = "load"
  /\ \/ ~Ended(i)
     \/ \E k \in 1..Len(evQ) : evQ[k].task = i /\ evQ[k].status \in Terminal

\* C20: while a load command waits for the listener or a load is in progress,
\* the controller's status is loading.
C20_StatusLoadingDuringLoad ==
  (/\ ~ctl.crashed
   /\ \/ \E k \in 1..Len(cmdQ) : cmdQ[k].type = "load"
      \/ \E i \in 1..Len(tasks) : LoadInProgress(i))
  => ctl.status = "loading"

\* C21: a call of onEditMessage made while status is not ready replaces the
\* content of the edited entry, drops the entries after it, leaves isRunning
\* false and posts no generate command.
C21_EditResumesOnlyWhenReady ==
  [][(Calls("onEditMessage") /\ ctl.status # "ready")
     => /\ ctl'.messages = Append(edit'.before,
                                  [ctl.messages[edit'.i] EXCEPT !.content = <<edit'.t>>])
        /\ ~ctl'.isRunning
        /\ Posted("generate") = {}]_vars

\* C22: an accepted call of handleModelChange posts exactly one command, a
\* load for the new identifier (and so no generate).
C22_SwitchPostsOnlyLoad ==
  [][(Calls("handleModelChange") /\ ~called'.early)
     => /\ ctl'.selectedModel # ctl.selectedModel
        /\ cmdQ' = cmdQ \o <<Cmd("load", ctl'.selectedModel, <<>>)>>]_vars

\* C23: messages does not start with an assistant entry and holds no two
\* consecutive assistant entries.
C23_AssistantFollowsUser ==
  \A k \in 1..Len(ctl.messages) :
    ctl.messages[k].role = "assistant"
    => k > 1 /\ ctl.messages[k - 1].role = "user"

\* C24: queuedMessage is present only while status is loading.
C24_QueuedOnlyWhileLoading ==
  ctl.queuedMessage # None => ctl.status = "loading"

\* C25: the step in which the listener takes a generate command leaves the
\* interrupt flag clear, whatever interrupts came before it, and the flag is
\* raised only by the step that takes an interrupt command (which starts no
\* command body): a flag found raised by a generation was raised after that
\* generation's command.
C25_FlagResetPerGeneration ==
  [][/\ \A i \in (Len(tasks) + 1)..Len(tasks') :
          (tasks'[i].kind = "generate" /\ tasks'[i].model_id # NoId) => ~stop'
     /\ (~stop /\ stop')
        => /\ cmdQ # <<>>
           /\ Head(cmdQ).type = "interrupt"
           /\ Len(tasks') = Len(tasks)]_vars

C25_Witness ==
  \E i \in Generations :
    /\ tasks[i].raised
    /\ tasks[i].ntok = MaxTokens
    /\ tasks[i].pc = "done"
    /\ ~stop

\* C26: the step that handles an error event sets status to null, error to
\* the event's message and isRunning to false, and leaves messages as it was.
C26_ErrorKeepsHistory ==
  [][Handles("error")
     => /\ ctl'.status = None
        /\ ctl'.error = Head(evQ).text
        /\ ~ctl'.isRunning
        /\ ctl'.messages = ctl.messages]_vars

C26_Witness ==
  /\ called.op = "onMessageReceived"
  /\ ctl.error = ErrorText
  /\ ctl.status = None
  /\ ~ctl.isRunning
  /\ Len(ctl.messages) = 2
  /\ \E i \in 1..Len(tasks) : tasks[i].emitted # <<>> /\ Last(tasks[i].emitted) = "error"

\* C27: the step that handles an unsupported_model event clears the stored
\* preference, sets status to null and isRunning to false, empties the
\* progress items, shows the selection modal and leaves no error set.
C27_UnsupportedModelRecovery ==
  [][Handles("unsupported_model")
     => /\ ctl'.stored = None
        /\ ctl'.status = None
        /\ ~ctl'.isRunning
        /\ ctl'.progressItems = <<>>
        /\ ctl'.showModelSelectionModal
        /\ ctl'.error = None]_vars

C27_Witness ==
  /\ called.op = "onMessageReceived"
  /\ ctl.showModelSelectionModal
  /\ ctl.stored = None
  /\ ctl.selectedModel = MX
  /\ ctl.status = None
  /\ ctl.error = None
  /\ \E i \in Loads : /\ tasks[i].model_id = MX
                      /\ tasks[i].emitted = <<"loading", "unsupported_model">>
  /\ evQ = <<>>

\* C28: an accepted call of handleModelChange is one made with isRunning
\* false and status not loading; it sets status to loading, clears
\* queuedMessage and the progress items, stores the new selection, posts load
\* for the new identifier first, and leaves messages as it was.
C28_SwitchFrame ==
  [][(Calls("handleModelChange") /\ ~called'.early)
     => /\ ~ctl.isRunning /\ ctl.status # "loading"
        /\ ctl'.selectedModel # ctl.selectedModel
        /\ ctl'.stored = ctl'.selectedModel
        /\ ctl'.status = "loading"
        /\ ctl'.queuedMessage = None
        /\ ctl'.progressItems = <<>>
        /\ ctl'.messages = ctl.messages
        /\ cmdQ' # <<>>
        /\ Head(cmdQ') = Cmd("load", ctl'.selectedModel, <<>>)
        /\ Cardinality(Posted("load")) = 1]_vars

C28_Witness ==
  /\ called.op = "handleModelChange"
  /\ ~called.early
  /\ ctl.selectedModel = M2
  /\ ctl.stored = M2
  /\ ctl.status = "loading"
  /\ ctl.queuedMessage = None
  /\ ctl.messages # <<>>
  /\ cmdQ # <<>>
  /\ Head(cmdQ) = Cmd("load", M2, <<>>)

\* A load is pending: a load command waits for the listener, or a load has
\* been taken and the controller has not handled its terminal event.
LoadPending ==
  \/ \E k \in 1..Len(cmdQ) : cmdQ[k].type = "load"
  \/ \E i \in 1..Len(tasks) : LoadInProgress(i)

\* C29: an onEnter call that is not rejected appends the user message; with
\* status not ready it stores the message as queuedMessage and posts load
\* exactly when status is not loading, and never while a load is pending;
\* with status ready it sets isRunning and leaves queuedMessage alone.
C29_SubmitFrame ==
  [][(Calls("onEnter") /\ ~called'.early)
     => /\ Len(ctl'.messages) = Len(ctl.messages) + 1
        /\ SubSeq(ctl'.messages, 1, Len(ctl.messages)) = ctl.messages
        /\ Last(ctl'.messages).role = "user"
        /\ ctl.status # "ready"
           => /\ ctl'.queuedMessage = Last(ctl'.messages).content[1]
              /\ Posted("load") # {} <=> ctl.status # "loading"
              /\ Posted("load") # {} => ~LoadPending
        /\ ctl.status = "ready"
           => /\ ctl'.isRunning
              /\ ctl'.queuedMessage = ctl.queuedMessage
              /\ Posted("load") = {}]_vars

\* C30: every generate command the controller posts carries the messages of
\* the render that posts it, whole and in order, non-empty and ending with a
\* user entry, and the model selected in that render.
C30_GenerateCarriesHistory ==
  [][cmdQ = <<>>
     => \A k \in Posted("generate") :
          /\ cmdQ'[k].data = ctl'.messages
          /\ cmdQ'[k].data # <<>>
          /\ Last(cmdQ'[k].data).role = "user"
          /\ cmdQ'[k].model_id = ctl'.selectedModel]_vars

C30_Witness ==
  /\ cmdQ # <<>>
  /\ Last(cmdQ).type = "generate"
  /\ Last(cmdQ).data = ctl.messages
  /\ Last(cmdQ).model_id = ctl.selectedModel
  /\ Len(ctl.messages) = 3
  /\ ctl.messages[2].role = "assistant"
  /\ ctl.messages[2].content # <<>>

\* The check, load and generate commands issued so far, in the order of their
\* posting: those the listener has taken, then those that wait.
Issued ==
  [i \in 1..Len(tasks) |-> [type |-> tasks[i].kind, model_id |-> tasks[i].model_id]]
  \o SelectSeq([k \in 1..Len(cmdQ) |-> [type |-> cmdQ[k].type, model_id |-> cmdQ[k].model_id]],
               LAMBDA c : c.type \in {"check", "load", "generate"})

\* C31: every generate command issued has a load command issued before it,
\* and the last load before it is for the same identifier.
C31_GenerateFollowsLoad ==
  \A k \in 1..Len(Issued) :
    Issued[k].type = "generate"
    => \E j \in 1..(k - 1) :
         /\ Issued[j].type = "load"
         /\ Issued[j].model_id = Issued[k].model_id
         /\ \A l \in (j + 1)..(k - 1) : Issued[l].type # "load"

C31_Witness ==
  \E j, k \in 1..Len(tasks) :
    /\ j < k
    /\ tasks[j].kind = "load" /\ tasks[j].model_id = M2
    /\ tasks[k].kind = "generate" /\ tasks[k].model_id = M2
    /\ \E i \in 1..(j - 1) : tasks[i].kind = "load" /\ tasks[i].model_id = M1

\* Load j has ended with an error event.
EndedInError(j) ==
  /\ tasks[j].kind = "load"
  /\ Ended(j)
  /\ EndsWith(tasks[j].emitted, "error")

\* C32: a load that the listener takes after a load for the same identifier
\* has ended with an error does not receive a failed tokenizer or model
\* handle from the cache (it loads again).
C32_FailedLoadIsRetried ==
  [][\A i \in (Len(tasks) + 1)..Len(tasks') :
       (/\ tasks'[i].kind = "load"
        /\ \E j \in 1..Len(tasks) :
             EndedInError(j) /\ tasks[j].model_id = tasks'[i].model_id)
       => /\ loaders'[tasks'[i].tok].st # "rejected"
          /\ loaders'[tasks'[i].mod].st # "rejected"]_vars

\* C33: the progress collection holds no two entries with the same file key.
C33_ProgressKeysUnique ==
  \A j, k \in 1..Len(ctl.progressItems) :
    ctl.progressItems[j].file = ctl.progressItems[k].file => j = k

\* A metric holds no measurement: it is null or undefined (numbers and
\* strings are told apart by their printed form).
Unmeasured(x) == ToString(x) \in {ToString(None), ToString(Undefined)}

\* C34: once the start event of a generation has been handled, the session
\* holds no measured tps, numTokens or contextTokens (each is null, or the
\* undefined of an update that carried no value).
C34_MetricsResetPerGeneration ==
  [][Handles("start")
     => /\ Unmeasured(ctl'.tps)
        /\ Unmeasured(ctl'.numTokens)
        /\ Unmeasured(ctl'.contextTokens)]_vars

\* C35: the contextTokens value that the controller takes from an update
\* event is a measurement (the event carries one).
C35_UpdateCarriesContextTokens ==
  [][(Handles("update") /\ ctl.messages # <<>>)
     => ~Unmeasured(ctl'.contextTokens)]_vars

\* The listener takes a command of the given type.
Takes(type) == cmdQ # <<>> /\ Head(cmdQ).type = type /\ cmdQ' = Tail(cmdQ)

\* C36: the step in which the listener takes a reset command clears the
\* interrupt flag, leaves the model cache and its handles unchanged, starts
\* no command body and posts no event.
C36_ResetFrame ==
  [][Takes("reset")
     => /\ ~stop'
        /\ cache' = cache
        /\ loaders' = loaders
        /\ tasks' = tasks
        /\ evQ' = evQ]_vars

C36_Witness ==
  /\ called.op = "newChat"
  /\ cmdQ = <<>>
  /\ ~stop
  /\ cache.current_model_id = M1
  /\ cache.tokenizer # 0 /\ loaders[cache.tokenizer].st = "resolved"
  /\ cache.model # 0 /\ loaders[cache.model].st = "resolved"
  /\ \E i \in Generations : tasks[i].seen = "ended"

\* The load commands issued so far.
IssuedLoads == {k \in 1..Len(Issued) : Issued[k].type = "load"}

\* C37: as long as no handler has run after the mount, either the storage
\* holds a catalog model, which is selected, with status loading and exactly
\* one load issued, for that model; or the storage is empty, no load has
\* been issued, status is null and the selection modal is shown.
C37_StartupSelection ==
  called.op = "mount"
  => \/ /\ ctl.stored \in AVAILABLE_MODELS
        /\ ctl.selectedModel = ctl.stored
        /\ ctl.status = "loading"
        /\ ~ctl.showModelSelectionModal
        /\ Cardinality(IssuedLoads) = 1
        /\ \A k \in IssuedLoads : Issued[k].model_id = ctl.stored
     \/ /\ ctl.stored = None
        /\ ctl.status = None
        /\ ctl.showModelSelectionModal
        /\ IssuedLoads = {}

C37_Witness ==
  /\ called.op = "mount"
  /\ ctl.stored = M1
  /\ ctl.selectedModel = M1
  /\ ctl.status = "loading"
  /\ cmdQ = <<>>
  /\ \E i \in Loads : tasks[i].model_id = M1 /\ tasks[i].emitted = <<"loading">>

\* The command bodies a step starts.
Started == (Len(tasks) + 1)..Len(tasks')

\* C38: a body started for the identifier the cache already holds handles
\* for receives those handles and starts no loader; a step starts at most
\* one tokenizer loader and one model loader, and only when the cache held
\* none for the identifier; and a body leaves its wait for the pair only
\* when both its tokenizer and its model have resolved.
C38_SharedLoaders ==
  [][/\ \A i \in Started :
          (/\ tasks'[i].kind \in {"load", "generate"}
           /\ tasks'[i].model_id = cache.current_model_id
           /\ cache.tokenizer # 0 /\ cache.model # 0)
          => /\ tasks'[i].tok = cache.tokenizer
             /\ tasks'[i].mod = cache.model
             /\ loaders' = loaders
     /\ \A what \in {"tokenizer", "model"} :
          LET new == {l \in (Len(loaders) + 1)..Len(loaders') : loaders'[l].what = what}
          IN /\ Cardinality(new) <= 1
             /\ new # {}
                => \/ cache'.current_model_id # cache.current_model_id
                   \/ (IF what = "tokenizer" THEN cache.tokenizer ELSE cache.model) = 0
     /\ \A i \in 1..Len(tasks) :
          (tasks[i].pc = "getInstance" /\ tasks'[i].pc \in {"warmup", "decoding"})
          => /\ loaders[tasks[i].tok].st = "resolved"
             /\ loaders[tasks[i].mod].st = "resolved"]_vars

C38_Witness ==
  \E i \in Loads, j \in Generations :
    /\ tasks[i].model_id = tasks[j].model_id
    /\ tasks[i].tok # 0 /\ tasks[i].tok = tasks[j].tok
    /\ tasks[i].mod # 0 /\ tasks[i].mod = tasks[j].mod
    /\ tasks[i].pc = "warmup"
    /\ tasks[j].pc = "decoding"
    /\ Len(loaders) = 2

====
